---------------------------- MODULE Spec2Model ----------------------------
(***************************************************************************)
(* Model of scripts/add_utoipa_annotations.py.                             *)
(*                                                                         *)
(* A source text is a sequence of lexical pieces.  Every piece stands for  *)
(* a fixed string of the Rust file, so that the text is the concatenation  *)
(* of its pieces:                                                          *)
(*    Derive   "#[derive(Debug)]"          NL      "\n"                    *)
(*    Marker   "#[derive(utoipa::ToSchema)]"  Indent  "    "               *)
(*    Serde    "#[serde(x)]"               DocLine "/// doc\n"             *)
(*    "Foo"    "pub struct Foo"            "Image" "pub struct Image"      *)
(*    "{" "}"  the braces                  Unit    "(u8);"                 *)
(*    "String" " a: String "               "PathBuf" " p: PathBuf "        *)
(* The regular expression of the script is modelled by what it matches on  *)
(* such texts, group by group, and re.sub by its left-to-right scan.       *)
(***************************************************************************)
EXTENDS Integers, Sequences, FiniteSets, TLC

\* One file's text put through add_utoipa_to_file again and again:
\*   original   the text before the first run
\*   content    the text the last run read (content, original_content)
\*   modified   the text the last run returned (modified)
\*   changed    the flag the last run returned (modified != original_content)
\*   log        for each match of the last run, what add_separate_derive saw
\*              and returned
\*   nruns      the number of runs made
VARIABLES original, content, modified, changed, log, nruns

\* A run of main() over a directory tree:
\*   anchor, types_dir   whether async-openai/Cargo.toml and
\*                       async-openai/src/types exist
\*   present             the files under async-openai/src/types
\*   disk0, disk         their texts before the run and now
\*   pc                  main, top (first loop), subdirs (outer second loop),
\*                       in_subdir (inner second loop), exit
\*   cur, dirs_done      subdir of the second loop, and those finished
\*   iterated            the files the globs have yielded so far
\*   invoked, results    per file, the calls of add_utoipa_to_file and what
\*                       the last one returned
\*   written             the files write_text has rewritten
\*   write_failed        the files whose write_text raised
\*   total_files, files_modified   the two counters
\*   exit_status         the status the process ended with, -1 while running
VARIABLES anchor, types_dir, present, disk0, disk, pc, cur, iterated, dirs_done,
          invoked, results, written, write_failed, total_files, files_modified,
          exit_status

avars == <<original, content, modified, changed, log, nruns>>

wvars == <<anchor, types_dir, present, disk0, disk, pc, cur, iterated, dirs_done,
           invoked, results, written, write_failed, total_files, files_modified,
           exit_status>>

vars == <<avars, wvars>>

MaxDecls == 2
MaxLen == 12
MaxRuns == 2

Derive == "#[derive(Debug)]"
Marker == "#[derive(utoipa::ToSchema)]"
Serde == "#[serde(x)]"
DocLine == "/// doc"
NL == "NL"
Indent == "INDENT"
Unit == "(u8);"

Whitespace == {NL, Indent}
DeriveAttrs == {Derive, Marker}
NonDeriveAttrs == {Serde}
AnyAttrs == DeriveAttrs \cup NonDeriveAttrs
DocComments == {DocLine}
TypeNames == {"Foo", "Image"}

types_to_skip == {"CreateSpeechResponse", "AssistantStreamEvent", "ImageResponse", "Image"}

problematic_types == {"Bytes", "ApiError", "Arc<", "PathBuf", "InputSource",
                      "WebSearchPreview", "AudioInput", "FileInput",
                      "HostedToolType", "ToolDefinition", "ImageInput",
                      "ResponseMetadata"}

\* Zero or more whitespace characters from position i on: the first position at
\* or after i that holds no whitespace.
RECURSIVE SkipWs(_, _)
SkipWs(t, i) ==
  IF i <= Len(t) /\ t[i] \in Whitespace THEN SkipWs(t, i + 1) ELSE i

\* A greedy repetition of (one piece of the class, then whitespace) from i on.
RECURSIVE SkipGroup(_, _, _)
SkipGroup(t, i, class) ==
  IF i <= Len(t) /\ t[i] \in class THEN SkipGroup(t, SkipWs(t, i + 1), class) ELSE i

\* The pattern tried at position i: groups 1 to 4, then the header (groups 5, 6).
MatchAt(t, i) ==
  LET j == SkipGroup(t, i, NonDeriveAttrs)
      k == SkipGroup(t, j, DeriveAttrs)
      l == SkipGroup(t, k, AnyAttrs)
      m == SkipGroup(t, l, DocComments)
      ok == k > j /\ m <= Len(t) /\ t[m] \in TypeNames
  IN  [ok |-> ok,
       start |-> i,
       stop |-> IF ok THEN m ELSE i,
       g1 |-> SubSeq(t, i, j - 1),
       g2 |-> SubSeq(t, j, k - 1),
       g3 |-> SubSeq(t, k, l - 1),
       g4 |-> SubSeq(t, l, m - 1),
       name |-> IF ok THEN t[m] ELSE ""]

\* str.rstrip
RECURSIVE rstrip(_)
rstrip(s) ==
  IF Len(s) > 0 /\ s[Len(s)] \in Whitespace THEN rstrip(SubSeq(s, 1, Len(s) - 1)) ELSE s

\* The loop over rest_of_content, from position i of the text on.
RECURSIVE ScanBody(_, _, _, _, _)
ScanBody(t, i, brace_count, in_struct, struct_content) ==
  IF i > Len(t) THEN struct_content
  ELSE LET char == t[i]
           bc == IF char = "{" THEN brace_count + 1
                 ELSE IF char = "}" THEN brace_count - 1
                 ELSE brace_count
           ins == in_struct \/ char = "{"
       IN  IF char = "}" /\ bc = 0 /\ ins THEN struct_content
           ELSE ScanBody(t, i + 1, bc, ins,
                         IF ins THEN Append(struct_content, char) ELSE struct_content)

StructContent(t, m) == ScanBody(t, m.stop + 1, 0, FALSE, <<>>)

Contains(s, x) == \E i \in 1..Len(s) : s[i] = x

HasProblematicType(struct_content) ==
  \E i \in 1..Len(struct_content) : struct_content[i] \in problematic_types

MatchText(t, m) == SubSeq(t, m.start, m.stop)

\* A variant of AlreadyAnnotated in which the idempotency test is lost.
AlreadyAnnotated_Dropped(m) == FALSE

AlreadyAnnotated(m) == Contains(rstrip(m.g2), Marker)

InsertedDerive(m) ==
  m.g1 \o rstrip(m.g2) \o <<NL, Marker, NL>> \o m.g3 \o m.g4 \o <<m.name>>

\* A variant of the callback in which the test of types_to_skip is lost.
add_separate_derive_NoNameSkip(t, m) ==
  IF AlreadyAnnotated(m) THEN MatchText(t, m)
  ELSE IF HasProblematicType(StructContent(t, m)) THEN MatchText(t, m)
  ELSE InsertedDerive(m)

\* The callback of re.sub.
add_separate_derive(t, m) ==
  IF AlreadyAnnotated(m) THEN MatchText(t, m)
  ELSE IF m.name \in types_to_skip THEN MatchText(t, m)
  ELSE IF HasProblematicType(StructContent(t, m)) THEN MatchText(t, m)
  ELSE InsertedDerive(m)

\* re.sub: the non-overlapping matches of t from position pos on, left to right.
RECURSIVE Matches(_, _)
Matches(t, pos) ==
  IF pos > Len(t) THEN <<>>
  ELSE LET m == MatchAt(t, pos)
       IN  IF m.ok THEN <<m>> \o Matches(t, m.stop + 1) ELSE Matches(t, pos + 1)

\* A variant of re.sub that stops after the first match (count=1).
RECURSIVE ReSubFirstOnly(_, _)
ReSubFirstOnly(t, pos) ==
  IF pos > Len(t) THEN <<>>
  ELSE LET m == MatchAt(t, pos)
       IN  IF m.ok THEN add_separate_derive(t, m) \o SubSeq(t, m.stop + 1, Len(t))
           ELSE <<t[pos]>> \o ReSubFirstOnly(t, pos + 1)

\* re.sub: the text with every match replaced by the callback's result.
RECURSIVE ReSub(_, _)
ReSub(t, pos) ==
  IF pos > Len(t) THEN <<>>
  ELSE LET m == MatchAt(t, pos)
       IN  IF m.ok THEN add_separate_derive(t, m) \o ReSub(t, m.stop + 1)
           ELSE <<t[pos]>> \o ReSub(t, pos + 1)

\* What the callback saw and returned for each match, in order.
CallLog(t) ==
  LET ms == Matches(t, 1)
  IN  [n \in 1..Len(ms) |->
         [start |-> ms[n].start, stop |-> ms[n].stop, name |-> ms[n].name,
          derives |-> rstrip(ms[n].g2),
          body |-> StructContent(t, ms[n]),
          matched |-> MatchText(t, ms[n]),
          result |-> add_separate_derive(t, ms[n])]]

\* add_utoipa_to_file: read, transform, compare.  An exception raised by the
\* read or the transform is caught and gives (None, False).
add_utoipa_to_file(text, read_ok) ==
  IF read_ok
  THEN [none |-> FALSE, text |-> ReSub(text, 1), was_modified |-> ReSub(text, 1) # text]
  ELSE [none |-> TRUE, text |-> <<>>, was_modified |-> FALSE]

NotRun == [none |-> FALSE, text |-> <<>>, was_modified |-> FALSE]

(***************************************************************************)
(* The texts the runs start from: up to MaxDecls declarations, each with   *)
(* optional leading attribute, derive block, trailing attributes, doc      *)
(* comment, a header and a body, of at most MaxLen pieces in all.          *)
(***************************************************************************)
PreOpts == {<<>>, <<Serde, NL>>}
DeriveOpts == {<<>>, <<Derive, NL>>, <<Derive, NL, Indent>>, <<Derive, NL, Marker, NL>>}
OtherOpts == {<<>>, <<Serde, NL>>, <<Serde, NL, Marker, NL>>}
DocOpts == {<<>>, <<DocLine>>}
BodyOpts == {<<Unit>>, <<"{", "String", "}">>, <<"{", "PathBuf", "}">>}

Decls ==
  {p \o d \o o \o c \o <<h>> \o b :
     p \in PreOpts, d \in DeriveOpts, o \in OtherOpts, c \in DocOpts,
     h \in TypeNames, b \in BodyOpts}

RECURSIVE TextsOf(_)
TextsOf(n) ==
  IF n = 0 THEN {<<>>}
  ELSE LET prev == TextsOf(n - 1)
       IN  prev \cup UNION {{t \o d : d \in {e \in Decls : Len(t) + Len(e) <= MaxLen}} :
                               t \in prev}

Inputs == TextsOf(MaxDecls)

(***************************************************************************)
(* The directory tree.  A path is the sequence of its components below     *)
(* async-openai/src/types.                                                 *)
(***************************************************************************)
Paths == {<<"a.rs">>, <<"mod.rs">>, <<"notes.txt">>,
          <<"s", "b.rs">>, <<"s", "mod.rs">>, <<"s", "d", "c.rs">>,
          <<"t", "e.rs">>}

FileName(p) == p[Len(p)]
IsRs(p) == FileName(p) \in {"a.rs", "b.rs", "c.rs", "e.rs", "mod.rs"}

Plain == <<Derive, NL, "Foo", "{", "String", "}">>
Annotated == <<Derive, NL, Marker, NL, "Foo", "{", "String", "}">>
FileTexts == {Plain, Annotated}

\* types_dir.glob('*.rs')
TopGlob(fs) == {p \in fs : Len(p) = 1 /\ IsRs(p)}

\* types_dir.iterdir() filtered by is_dir()
Subdirs(fs) == {p[1] : p \in {q \in fs : Len(q) > 1}}

\* A variant of SubGlob that does not descend: subdir.glob('*.rs').
SubGlobOneLevel(fs, subdir) == {p \in fs : Len(p) = 2 /\ p[1] = subdir /\ IsRs(p)}

\* subdir.glob('**/*.rs')
SubGlob(fs, subdir) == {p \in fs : Len(p) > 1 /\ p[1] = subdir /\ IsRs(p)}

AInit ==
  /\ original \in Inputs
  /\ content = original
  /\ modified = original
  /\ changed = FALSE
  /\ log = <<>>
  /\ nruns = 0

WIdle ==
  /\ anchor = FALSE
  /\ types_dir = FALSE
  /\ present = {}
  /\ disk0 = [p \in Paths |-> <<>>]
  /\ disk = [p \in Paths |-> <<>>]
  /\ pc = "idle"
  /\ cur = ""
  /\ iterated = {}
  /\ dirs_done = {}
  /\ invoked = [p \in Paths |-> 0]
  /\ results = [p \in Paths |-> NotRun]
  /\ written = {}
  /\ write_failed = {}
  /\ total_files = 0
  /\ files_modified = 0
  /\ exit_status = -1

Init == AInit /\ WIdle

\* add_utoipa_to_file on the text the previous run left
AddUtoipaToFile ==
  /\ nruns < MaxRuns
  /\ content' = modified
  /\ modified' = add_utoipa_to_file(modified, TRUE).text
  /\ changed' = add_utoipa_to_file(modified, TRUE).was_modified
  /\ log' = CallLog(modified)
  /\ nruns' = nruns + 1
  /\ UNCHANGED <<original, wvars>>

Next == AddUtoipaToFile

Spec == Init /\ [][Next]_vars

(***************************************************************************)
(* main() and process_types_directory()                                    *)
(***************************************************************************)
WInit ==
  /\ anchor \in BOOLEAN
  /\ types_dir \in BOOLEAN
  /\ present \in SUBSET Paths
  /\ ~types_dir => present = {}
  /\ disk0 \in [Paths -> FileTexts \cup {<<>>}]
  /\ \A p \in Paths :
       /\ p \notin present => disk0[p] = <<>>
       /\ p \in present => disk0[p] \in FileTexts
       /\ (p \in present /\ (~IsRs(p) \/ FileName(p) = "mod.rs")) => disk0[p] = Plain
  /\ disk = disk0
  /\ pc = "main"
  /\ cur = ""
  /\ iterated = {}
  /\ dirs_done = {}
  /\ invoked = [p \in Paths |-> 0]
  /\ results = [p \in Paths |-> NotRun]
  /\ written = {}
  /\ write_failed = {}
  /\ total_files = 0
  /\ files_modified = 0
  /\ exit_status = -1

AIdle ==
  /\ original = <<>>
  /\ content = <<>>
  /\ modified = <<>>
  /\ changed = FALSE
  /\ log = <<>>
  /\ nruns = 0

WalkInit == WInit /\ AIdle

\* main: async-openai/Cargo.toml is missing, sys.exit(1)
MainAnchorMissing ==
  /\ pc = "main"
  /\ ~anchor
  /\ pc' = "exit"
  /\ exit_status' = 1
  /\ UNCHANGED <<avars, anchor, types_dir, present, disk0, disk, cur, iterated, dirs_done,
                 invoked, results, written, write_failed, total_files, files_modified>>

\* process_types_directory returns False, main ends with sys.exit(1)
TypesDirMissing ==
  /\ pc = "main"
  /\ anchor
  /\ ~types_dir
  /\ pc' = "exit"
  /\ exit_status' = 1
  /\ UNCHANGED <<avars, anchor, types_dir, present, disk0, disk, cur, iterated, dirs_done,
                 invoked, results, written, write_failed, total_files, files_modified>>

\* process_types_directory sets its counters and enters the first loop
StartWalk ==
  /\ pc = "main"
  /\ anchor
  /\ types_dir
  /\ pc' = "top"
  /\ total_files' = 0
  /\ files_modified' = 0
  /\ UNCHANGED <<avars, anchor, types_dir, present, disk0, disk, cur, iterated, dirs_done,
                 invoked, results, written, write_failed, exit_status>>

\* A variant of ProcessFile that counts every file whose result is not None as
\* modified.
ProcessFile_CountsUnchanged(rust_file, read_ok, write_ok) ==
  LET r == add_utoipa_to_file(disk[rust_file], read_ok)
  IN  /\ total_files' = total_files + 1
      /\ invoked' = [invoked EXCEPT ![rust_file] = @ + 1]
      /\ results' = [results EXCEPT ![rust_file] = r]
      /\ IF r.none
         THEN UNCHANGED <<disk, written, write_failed, files_modified, pc, exit_status>>
         ELSE IF r.was_modified /\ ~write_ok
         THEN /\ write_failed' = write_failed \cup {rust_file}
              /\ pc' = "exit"
              /\ exit_status' = 1
              /\ UNCHANGED <<disk, written, files_modified>>
         ELSE /\ disk' = [disk EXCEPT ![rust_file] = IF r.was_modified THEN r.text ELSE @]
              /\ written' = IF r.was_modified THEN written \cup {rust_file} ELSE written
              /\ files_modified' = files_modified + 1
              /\ UNCHANGED <<write_failed, pc, exit_status>>

\* The rest of the loop body for a file that is not mod.rs: count it, call
\* add_utoipa_to_file, write the result back if it was modified.  An exception
\* of write_text is caught nowhere: the traceback ends the process with status
\* 1, the file as it was (the open for writing failed).
ProcessFile(rust_file, read_ok, write_ok) ==
  LET r == add_utoipa_to_file(disk[rust_file], read_ok)
  IN  /\ total_files' = total_files + 1
      /\ invoked' = [invoked EXCEPT ![rust_file] = @ + 1]
      /\ results' = [results EXCEPT ![rust_file] = r]
      /\ IF r.none
         THEN UNCHANGED <<disk, written, write_failed, files_modified, pc, exit_status>>
         ELSE IF r.was_modified
         THEN IF write_ok
              THEN /\ disk' = [disk EXCEPT ![rust_file] = r.text]
                   /\ written' = written \cup {rust_file}
                   /\ files_modified' = files_modified + 1
                   /\ UNCHANGED <<write_failed, pc, exit_status>>
              ELSE /\ write_failed' = write_failed \cup {rust_file}
                   /\ pc' = "exit"
                   /\ exit_status' = 1
                   /\ UNCHANGED <<disk, written, files_modified>>
         ELSE UNCHANGED <<disk, written, write_failed, files_modified, pc, exit_status>>

\* The body of both for loops for one file the glob yields: mod.rs is passed
\* over.
LoopBody(rust_file, read_ok, write_ok) ==
  /\ iterated' = iterated \cup {rust_file}
  /\ IF FileName(rust_file) = "mod.rs"
     THEN UNCHANGED <<total_files, invoked, results, disk, written, write_failed,
                      files_modified, pc, exit_status>>
     ELSE ProcessFile(rust_file, read_ok, write_ok)

\* for rust_file in types_dir.glob('*.rs'): one iteration
TopLoopStep ==
  /\ pc = "top"
  /\ \E rust_file \in TopGlob(present) \ iterated :
       \E read_ok \in BOOLEAN, write_ok \in BOOLEAN :
         LoopBody(rust_file, read_ok, write_ok)
  /\ UNCHANGED <<avars, anchor, types_dir, present, disk0, cur, dirs_done>>

\* the first loop is exhausted
TopLoopDone ==
  /\ pc = "top"
  /\ TopGlob(present) \subseteq iterated
  /\ pc' = "subdirs"
  /\ UNCHANGED <<avars, anchor, types_dir, present, disk0, disk, cur, iterated, dirs_done,
                 invoked, results, written, write_failed, total_files, files_modified,
                 exit_status>>

\* for subdir in types_dir.iterdir(): if subdir.is_dir()
EnterSubdir ==
  /\ pc = "subdirs"
  /\ \E subdir \in Subdirs(present) \ dirs_done : cur' = subdir
  /\ pc' = "in_subdir"
  /\ UNCHANGED <<avars, anchor, types_dir, present, disk0, disk, iterated, dirs_done,
                 invoked, results, written, write_failed, total_files, files_modified,
                 exit_status>>

\* for rust_file in subdir.glob('**/*.rs'): one iteration
SubLoopStep ==
  /\ pc = "in_subdir"
  /\ \E rust_file \in SubGlob(present, cur) \ iterated :
       \E read_ok \in BOOLEAN, write_ok \in BOOLEAN :
         LoopBody(rust_file, read_ok, write_ok)
  /\ UNCHANGED <<avars, anchor, types_dir, present, disk0, cur, dirs_done>>

\* the inner loop is exhausted
SubLoopDone ==
  /\ pc = "in_subdir"
  /\ SubGlob(present, cur) \subseteq iterated
  /\ dirs_done' = dirs_done \cup {cur}
  /\ pc' = "subdirs"
  /\ UNCHANGED <<avars, anchor, types_dir, present, disk0, disk, cur, iterated,
                 invoked, results, written, write_failed, total_files, files_modified,
                 exit_status>>

\* the summary is printed, process_types_directory returns True, main ends
Summary ==
  /\ pc = "subdirs"
  /\ Subdirs(present) \subseteq dirs_done
  /\ pc' = "exit"
  /\ exit_status' = 0
  /\ UNCHANGED <<avars, anchor, types_dir, present, disk0, disk, cur, iterated, dirs_done,
                 invoked, results, written, write_failed, total_files, files_modified>>

WalkNext ==
  \/ MainAnchorMissing
  \/ TypesDirMissing
  \/ StartWalk
  \/ TopLoopStep
  \/ TopLoopDone
  \/ EnterSubdir
  \/ SubLoopStep
  \/ SubLoopDone
  \/ Summary

WalkSpec == WalkInit /\ [][WalkNext]_vars

(***************************************************************************)
(* Properties of the Annotator                                             *)
(***************************************************************************)
Count(s, x) == Cardinality({i \in 1..Len(s) : s[i] = x})

ExcludedNames == {"CreateSpeechResponse", "AssistantStreamEvent", "ImageResponse", "Image"}

ExcludedSubstrings == {"Bytes", "ApiError", "Arc<", "PathBuf", "InputSource",
                       "WebSearchPreview", "AudioInput", "FileInput",
                       "HostedToolType", "ToolDefinition", "ImageInput",
                       "ResponseMetadata"}

NameExcluded(r) == r.name \in ExcludedNames
BodyExcluded(r) == \E i \in 1..Len(r.body) : r.body[i] \in ExcludedSubstrings
Qualifies(r) == ~Contains(r.derives, Marker) /\ ~NameExcluded(r) /\ ~BodyExcluded(r)
WasAnnotated(r) == r.result # r.matched
NumAnnotated == Cardinality({n \in 1..Len(log) : WasAnnotated(log[n])})

\* C1: a run of the Annotator on the output of an earlier run returns that
\* output unchanged and reports no change.
C1_Idempotent == nruns >= 2 => (modified = content /\ changed = FALSE)

\* The first run annotated one declaration and skipped a name-excluded one,
\* and the second run has been made on its output.
C1_Witness ==
  /\ nruns = 2
  /\ content # original
  /\ modified = content
  /\ \E n \in 1..Len(log) : NameExcluded(log[n])
  /\ \E n \in 1..Len(log) : Contains(log[n].derives, Marker)

\* C2: for every annotated declaration, deleting the one inserted line
\* '#[derive(utoipa::ToSchema)]' from the replacement gives back the matched
\* text, whitespace and indentation after the derive block included.
C2_InsertionPreservesText ==
  nruns >= 1 =>
    \A n \in 1..Len(log) :
      WasAnnotated(log[n]) =>
        \E p \in 0..Len(log[n].matched) :
          log[n].result = SubSeq(log[n].matched, 1, p) \o <<Marker, NL>>
                          \o SubSeq(log[n].matched, p + 1, Len(log[n].matched))

\* C3: a candidate whose name is excluded, or whose extracted body holds an
\* exclusion substring, is returned as matched; when every candidate of the
\* text is such, the text is returned unchanged with changed = False.
C3_ExcludedUntouched ==
  nruns >= 1 =>
    /\ \A n \in 1..Len(log) :
         (NameExcluded(log[n]) \/ BodyExcluded(log[n])) => log[n].result = log[n].matched
    /\ (\A n \in 1..Len(log) : NameExcluded(log[n]) \/ BodyExcluded(log[n]))
         => (modified = content /\ changed = FALSE)

\* One run met a declaration excluded by name alone and one excluded by its
\* body alone.
C3_Witness ==
  /\ nruns = 1
  /\ \E n \in 1..Len(log) :
       NameExcluded(log[n]) /\ ~BodyExcluded(log[n]) /\ ~Contains(log[n].derives, Marker)
  /\ \E n \in 1..Len(log) :
       BodyExcluded(log[n]) /\ ~NameExcluded(log[n]) /\ ~Contains(log[n].derives, Marker)

\* C4: one pass over non-overlapping matches, left to right, annotates every
\* qualifying candidate and no other; changed is True exactly when a candidate
\* was annotated; a text without a derive attribute comes back as it was.
C4_WholeFile ==
  nruns >= 1 =>
    /\ \A n \in 1..Len(log) : WasAnnotated(log[n]) <=> Qualifies(log[n])
    /\ \A n \in 1..(Len(log) - 1) : log[n].stop < log[n + 1].start
    /\ Count(modified, Marker) = Count(content, Marker) + NumAnnotated
    /\ changed <=> NumAnnotated >= 1
    /\ NumAnnotated = 0 => modified = content
    /\ (\A i \in 1..Len(content) : content[i] \notin DeriveAttrs)
         => (modified = content /\ changed = FALSE /\ Len(log) = 0)

\* A single run annotated two declarations of one text.
C4_Witness == nruns = 1 /\ NumAnnotated = 2 /\ changed

\* The pieces in front of the header at position h that belong to it: the run
\* of attributes, doc comments and whitespace that ends right before it.
RECURSIVE AttrRunStart(_, _)
AttrRunStart(t, h) ==
  IF h > 1 /\ t[h - 1] \in (AnyAttrs \cup DocComments \cup Whitespace)
  THEN AttrRunStart(t, h - 1) ELSE h

MarkersBefore(t, h) == Count(SubSeq(t, AttrRunStart(t, h), h - 1), Marker)

AtMostOneMarker(t) ==
  \A h \in 1..Len(t) : t[h] \in TypeNames => MarkersBefore(t, h) <= 1

\* C9: if every declaration of the input has the marker in at most one of the
\* attribute lines before its header, so has every declaration of the output.
C9_NoDoubleAnnotation ==
  nruns >= 1 => (AtMostOneMarker(content) => AtMostOneMarker(modified))

\* The end of the declaration whose header ends at position i - 1: its
\* terminating ';' or the '}' that closes its body.
RECURSIVE DeclEnd(_, _, _)
DeclEnd(t, i, depth) ==
  IF i > Len(t) THEN Len(t)
  ELSE IF t[i] = Unit /\ depth = 0 THEN i
  ELSE IF t[i] = "{" THEN DeclEnd(t, i + 1, depth + 1)
  ELSE IF t[i] = "}" /\ depth <= 1 THEN i
  ELSE IF t[i] = "}" THEN DeclEnd(t, i + 1, depth - 1)
  ELSE DeclEnd(t, i + 1, depth)

\* C10: the decision on a candidate is the same in the text and in the text
\* cut after the candidate's own declaration: what follows has no say.
C10_DecisionIsLocal ==
  nruns >= 1 =>
    \A n \in 1..Len(log) :
      LET own == SubSeq(content, 1, DeclEnd(content, log[n].stop + 1, 0))
          m == MatchAt(own, log[n].start)
      IN  (add_separate_derive(own, m) # MatchText(own, m)) <=> WasAnnotated(log[n])

(***************************************************************************)
(* Properties of the directory walk                                        *)
(***************************************************************************)
Selected(fs) == {p \in fs : IsRs(p) /\ FileName(p) # "mod.rs"}
SelectedOneLevel(fs) == {p \in Selected(fs) : Len(p) <= 2}
Seen == {p \in Paths : invoked[p] >= 1}
AnnotatorChanged(p) == invoked[p] >= 1 /\ ~results[p].none /\ results[p].was_modified
PreconditionFailed == ~anchor \/ ~types_dir

\* C5: no failure on one file ends the run: a run that passed the two
\* precondition tests ends after the summary, every selected file processed.
C5_FailureIsolated ==
  (pc = "exit" /\ ~PreconditionFailed) =>
    (exit_status = 0 /\ \A p \in Selected(present) : invoked[p] >= 1)

\* C6: the exit status is non-zero exactly when the anchor file or the target
\* directory is missing, and then no file was read, counted or written.
C6_ExitStatus ==
  pc = "exit" =>
    /\ exit_status \in {0, 1}
    /\ exit_status # 0 <=> PreconditionFailed
    /\ PreconditionFailed => (Seen = {} /\ written = {} /\ disk = disk0 /\ total_files = 0)

C7_Counts ==
  /\ files_modified = Cardinality(written)
  /\ 0 <= files_modified
  /\ files_modified <= total_files
  /\ total_files = Cardinality(Seen)
  /\ total_files - files_modified = Cardinality(Seen \ written)

C7_Content ==
  \A p \in Paths :
    /\ p \in written => disk[p] = results[p].text
    /\ p \notin written => disk[p] = disk0[p]

=============================================================================
